---- MODULE Spec2Model ----
(***************************************************************************)
(* A model of the go-vmdk context assembler and read dispatcher:           *)
(*   src/parser/context.go   GetVMDKContext, normalizeExtents,             *)
(*                           getExtentForOffset, ReadAt, Close, ParseInt   *)
(*   src/bin/type.go         FlatExtent (ReadAt, Close, GetFlatExtent)     *)
(*   src/unnamed/part_000    the second build of GetVMDKContext            *)
(*                           (lines 150-253), which accepts VMFS and       *)
(*                           returns parse errors instead of panicking.    *)
(*                           The copy at lines 407-552 differs from it     *)
(*                           only by debug logging.                        *)
(*                                                                         *)
(* The descriptor is a sequence of lines; a line carries which section     *)
(* header regex matches it and the result of ExtentRegex.FindStringSubmatch*)
(* on it (<<>> when it does not match; otherwise the five capture groups,  *)
(* so that match[k] here is match[k] in the Go code for k in 1..5).        *)
(* Descriptor key/value settings (VMDKConfig) are not part of the model,    *)
(* and the descriptor is a standalone text file: the KDMV state of an      *)
(* embedded descriptor is never entered.                                   *)
(*                                                                         *)
(* The environment is a small file system the opener resolves names in:    *)
(*   a.vmdk        a regular file of FileLen bytes, no sparse magic        *)
(*   s.vmdk        a sparse extent file with a valid header of capacity    *)
(*                 SparseCap sectors                                       *)
(*   missing.vmdk  does not exist: the opener returns an error             *)
(***************************************************************************)
EXTENDS Integers, Sequences, FiniteSets, TLC

VARIABLES variant, descriptor, ctx, handles, ret, nclose

vars == <<variant, descriptor, ctx, handles, ret, nclose>>

SECTOR_SIZE == 512

\* Bounds of the model.
MaxLines == 2
MaxClose == 2
FileLen == 700
SparseCap == 1
OffStep == 256
MaxExtents == 3

Min(a, b) == IF a < b THEN a ELSE b
Max(a, b) == IF a > b THEN a ELSE b

(***************************************************************************)
(* Descriptor lines.                                                       *)
(***************************************************************************)
HdrDescriptor == "# Disk DescriptorFile"
HdrExtents == "# Extent description"
HdrDiskDataBase == "# The Disk Data Base"

HeaderLine(h) == [hdr |-> h, match |-> <<>>]
OtherLine == [hdr |-> "", match |-> <<>>]
ExtentLine(access, sectors, kind, file, off) ==
    [hdr |-> "", match |-> <<access, sectors, kind, file, off>>]

\* A digit string that does not fit an int64 (2^63).
HugeDigits == "9223372036854775808"

Lines ==
    { HeaderLine(HdrExtents),
      OtherLine,
      ExtentLine("RW", "1", "FLAT", "a.vmdk", ""),
      ExtentLine("RW", "0", "FLAT", "a.vmdk", "0"),
      ExtentLine("RW", "1", "FLAT", "a.vmdk", "0"),
      ExtentLine("RW", "1", "FLAT", "a.vmdk", "1"),
      ExtentLine("RW", "1", "VMFS", "a.vmdk", "1"),
      ExtentLine("RW", "1", "SPARSE", "s.vmdk", ""),
      ExtentLine("RW", "1", "SPARSE", "a.vmdk", ""),
      ExtentLine("RW", "1", "ZEROES", "a.vmdk", ""),
      ExtentLine("RW", "1", "ZEROES", "missing.vmdk", ""),
      ExtentLine("RW", HugeDigits, "ZEROES", "a.vmdk", "") }

RECURSIVE SeqsUpTo(_, _)
SeqsUpTo(S, n) ==
    IF n = 0 THEN { <<>> }
    ELSE LET shorter == SeqsUpTo(S, n - 1)
         IN  shorter \cup { Append(s, x) : s \in { t \in shorter : Len(t) = n - 1 }, x \in S }

\* An Extents section ended by a line that is no extent, and an extent line
\* after it.
EndedSection ==
    << HeaderLine(HdrExtents), OtherLine, ExtentLine("RW", "1", "FLAT", "a.vmdk", "0") >>

\* Descriptors: up to MaxLines lines, with nothing, the Extents header or an
\* ended Extents section in front.
Descriptors ==
    LET body == SeqsUpTo(Lines, MaxLines)
    IN  body \cup { <<HeaderLine(HdrExtents)>> \o b : b \in body }
             \cup { EndedSection \o b : b \in body }

Variants == { "parser/context.go", "unnamed/part_000" }

(***************************************************************************)
(* strconv.ParseInt(s, 10, 64) on the digit strings of the model.          *)
(***************************************************************************)
StrconvOk(s) == s \in { "0", "1", "2" }
StrconvVal(s) == CASE s = "0" -> 0 [] s = "1" -> 1 [] s = "2" -> 2 [] OTHER -> 0

\* ParseInt of context.go: panics on an error.
ParseInt(s) ==
    IF StrconvOk(s) THEN [n |-> StrconvVal(s), err |-> "nil"]
    ELSE [n |-> 0, err |-> "panic"]

\* parseInt of part_000: returns the error.
parseInt(s) ==
    IF StrconvOk(s) THEN [n |-> StrconvVal(s), err |-> "nil"]
    ELSE [n |-> 0, err |-> "parse"]

(***************************************************************************)
(* The opener and the backing files.                                       *)
(***************************************************************************)
\* The opener callback: (reader, closer, err).
opener(filename) ==
    IF filename = "missing.vmdk" THEN "open-error" ELSE "nil"

\* Length in bytes of a backing file.
BackingLen(filename) ==
    IF filename = "a.vmdk" THEN FileLen ELSE (SparseCap + 1) * SECTOR_SIZE

\* A positioned read of len bytes on an open regular file: data up to the
\* end of the file, io.EOF when fewer than len bytes are left.
ReaderReadAt(filename, len, fileOffset) ==
    LET flen == BackingLen(filename)
        n == IF fileOffset >= flen THEN 0 ELSE Min(len, flen - fileOffset)
    IN  [n |-> n, err |-> IF n < len THEN "EOF" ELSE "nil"]

(***************************************************************************)
(* Extents.  closer is the index in handles of the (reader, closer) pair   *)
(* the opener returned, 0 for a nil closer.  base is header.Offset of a    *)
(* flat extent.                                                            *)
(***************************************************************************)
NilCloser == 0

GetFlatExtent(filename, offsetSectors, sectors, virtualOffset, closer) ==
    [type |-> "flat",
     offset |-> virtualOffset,
     total_size |-> sectors * SECTOR_SIZE,
     base |-> offsetSectors * SECTOR_SIZE,
     filename |-> filename,
     closer |-> closer]

\* The sparse header of the backing file: the magic number is checked and
\* the capacity gives the extent's size.
GetSparseExtent(filename) ==
    IF filename = "s.vmdk"
    THEN [err |-> "nil",
          extent |-> [type |-> "sparse", offset |-> 0,
                      total_size |-> SparseCap * SECTOR_SIZE, base |-> 0,
                      filename |-> "", closer |-> NilCloser]]
    ELSE [err |-> "bad-magic",
          extent |-> [type |-> "sparse", offset |-> 0, total_size |-> 0, base |-> 0,
                      filename |-> "", closer |-> NilCloser]]

NullExtent(offset, total_size) ==
    [type |-> "null", offset |-> offset, total_size |-> total_size, base |-> 0,
     filename |-> "", closer |-> NilCloser]

VirtualOffset(e) == e.offset
TotalSize(e) == e.total_size

(***************************************************************************)
(* GetVMDKContext.  acc is the state of the line loop: the parser state,   *)
(* res.extents, res.total_size, the pairs the opener has returned so far   *)
(* and the error the function returns ("" while the loop runs).            *)
(***************************************************************************)
Fail(acc, e) == [acc EXCEPT !.err = e]

Opened(acc, filename) ==
    [acc EXCEPT !.handles = Append(@, [file |-> filename, calls |-> 0])]

AppendExtent(acc, extent) ==
    [acc EXCEPT !.total_size = @ + TotalSize(extent),
                !.extents = Append(@, extent)]

SparseCase(acc, extent_filename) ==
    LET g == GetSparseExtent(extent_filename)
    IN  IF g.err # "nil" THEN Fail(acc, g.err)
        ELSE AppendExtent(acc, [g.extent EXCEPT !.offset = acc.total_size,
                                                !.closer = Len(acc.handles),
                                                !.filename = extent_filename])

\* context.go: which arm of `switch extent_type` is taken.
ParserKind_UnknownAsFlat(extent_type) ==
    IF extent_type = "SPARSE" THEN "SPARSE" ELSE "FLAT"

ParserKind(extent_type) ==
    CASE extent_type = "SPARSE" -> "SPARSE"
      [] extent_type = "FLAT" -> "FLAT"
      [] OTHER -> "default"

\* context.go: a line of the Extents section that matches ExtentRegex.
ParserExtent(acc, match) ==
    LET extent_type == match[3]
        extent_filename == match[4]
    IN  IF opener(extent_filename) # "nil" THEN Fail(acc, opener(extent_filename))
        ELSE LET a == Opened(acc, extent_filename)
                 arm == ParserKind(extent_type)
             IN  CASE arm = "SPARSE" -> SparseCase(a, extent_filename)
                   [] arm = "FLAT" ->
                        LET sectors == ParseInt(match[2])
                            offsetSectors == ParseInt(match[5])
                        IN  IF sectors.err # "nil" THEN Fail(a, sectors.err)
                            ELSE IF offsetSectors.err # "nil" THEN Fail(a, offsetSectors.err)
                            ELSE AppendExtent(a, GetFlatExtent(extent_filename, offsetSectors.n,
                                                 sectors.n, a.total_size, Len(a.handles)))
                   [] OTHER -> Fail(a, "unsupported-extent-kind")

\* The loop body without `state = ""` on a line that is no extent.
ParserLine_StaysInExtents(acc, line) ==
    IF line.hdr = HdrDescriptor THEN [acc EXCEPT !.state = "Descriptor"]
    ELSE IF line.hdr = HdrExtents THEN [acc EXCEPT !.state = "Extents"]
    ELSE IF line.hdr = HdrDiskDataBase THEN [acc EXCEPT !.state = "DiskDataBase"]
    ELSE IF acc.state = "Extents" /\ Len(line.match) > 0
         THEN ParserExtent(acc, line.match)
         ELSE acc

\* context.go: the body of the loop over the descriptor's lines.
ParserLine(acc, line) ==
    IF line.hdr = HdrDescriptor THEN [acc EXCEPT !.state = "Descriptor"]
    ELSE IF line.hdr = HdrExtents THEN [acc EXCEPT !.state = "Extents"]
    ELSE IF line.hdr = HdrDiskDataBase THEN [acc EXCEPT !.state = "DiskDataBase"]
    ELSE IF acc.state = "Extents"
         THEN IF Len(line.match) > 0 THEN ParserExtent(acc, line.match)
              ELSE [acc EXCEPT !.state = ""]
         ELSE acc

\* part_000: which arm of `switch extent_type` is taken.
Part0Kind(extent_type) ==
    CASE extent_type = "SPARSE" -> "SPARSE"
      [] extent_type \in { "FLAT", "VMFS" } -> "FLAT"
      [] OTHER -> "default"

\* part_000: a line of the Extents section that matches ExtentRegex.
Part0Extent(acc, match) ==
    LET sectors == parseInt(match[2])
        extent_type == match[3]
        extent_filename == match[4]
        offsetSectors == IF Len(match) >= 5 /\ match[5] # ""
                         THEN parseInt(match[5])
                         ELSE [n |-> 0, err |-> "nil"]
    IN  IF sectors.err # "nil" THEN Fail(acc, sectors.err)
        ELSE IF offsetSectors.err # "nil" THEN Fail(acc, offsetSectors.err)
        ELSE IF opener(extent_filename) # "nil" THEN Fail(acc, opener(extent_filename))
        ELSE LET a == Opened(acc, extent_filename)
                 arm == Part0Kind(extent_type)
             IN  CASE arm = "SPARSE" -> SparseCase(a, extent_filename)
                   [] arm = "FLAT" ->
                        AppendExtent(a, GetFlatExtent(extent_filename, offsetSectors.n,
                                        sectors.n, a.total_size, Len(a.handles)))
                   [] OTHER -> Fail(a, "unsupported-extent-kind")

\* part_000: the body of the loop over the descriptor's lines.
Part0Line(acc, line) ==
    IF line.hdr = HdrExtents THEN [acc EXCEPT !.state = "Extents"]
    ELSE IF acc.state = "Extents"
         THEN IF Len(line.match) > 0 THEN Part0Extent(acc, line.match)
              ELSE [acc EXCEPT !.state = ""]
         ELSE acc

RECURSIVE LineLoop(_, _, _, _)
LineLoop(v, acc, lines, k) ==
    IF k > Len(lines) \/ acc.err # "" THEN acc
    ELSE LineLoop(v,
                  IF v = "parser/context.go" THEN ParserLine(acc, lines[k])
                                             ELSE Part0Line(acc, lines[k]),
                  lines, k + 1)

EmptyAcc(st) ==
    [state |-> st, extents |-> <<>>, total_size |-> 0, handles |-> <<>>, err |-> ""]

(***************************************************************************)
(* normalizeExtents: the new extent list.                                  *)
(***************************************************************************)
RECURSIVE NormalizeLoop(_, _, _, _)
NormalizeLoop(old, k, extents, offset) ==
    IF k > Len(old) THEN extents
    ELSE LET e == old[k]
             filled == IF VirtualOffset(e) > offset
                       THEN Append(extents, NullExtent(offset, VirtualOffset(e) - offset))
                       ELSE extents
         IN  NormalizeLoop(old, k + 1, Append(filled, e), offset + TotalSize(e))

normalizeExtents(c) ==
    [c EXCEPT !.extents = NormalizeLoop(c.extents, 1, <<>>, 0)]

\* The context GetVMDKContext returns for the lines of a descriptor, or its error.
GetVMDKContext(v, lines) ==
    IF v = "parser/context.go" /\ Len(lines) = 0
    THEN Fail(EmptyAcc(""), "panic")
    ELSE LET acc == LineLoop(v, EmptyAcc(""), lines, 1)
         IN  IF acc.err # "" THEN acc
             ELSE [acc EXCEPT !.err = "nil",
                              !.extents = normalizeExtents(acc).extents]

NoContext == [valid |-> FALSE, extents |-> <<>>, total_size |-> 0]

Size(c) == c.total_size

(***************************************************************************)
(* getExtentForOffset.  sort.Search is the binary search of the Go         *)
(* library on indexes [0, n); extents[h] there is extents[h + 1] here.     *)
(***************************************************************************)
RECURSIVE SortSearch(_, _, _, _)
SortSearch(extents, offset, i, j) ==
    IF ~(i < j) THEN i
    ELSE LET h == (i + j) \div 2
         IN  IF ~(VirtualOffset(extents[h + 1]) > offset)
             THEN SortSearch(extents, offset, h + 1, j)
             ELSE SortSearch(extents, offset, i, h)

\* [err, idx]: idx is the position in extents of the extent returned.
getExtentForOffset(extents, offset) ==
    LET n == SortSearch(extents, offset, 0, Len(extents))
    IN  IF n < 1 \/ n > Len(extents) THEN [err |-> "EOF", idx |-> 0]
        ELSE LET extent == extents[n]
                 virtual_offset == VirtualOffset(extent)
                 extent_size == TotalSize(extent)
             IN  IF virtual_offset > offset \/ virtual_offset + extent_size < offset
                 THEN [err |-> "EOF", idx |-> 0]
                 ELSE [err |-> "nil", idx |-> n]

(***************************************************************************)
(* Extent.ReadAt(buf, offset) for a buffer of len bytes: (n, err).         *)
(***************************************************************************)
FlatExtentReadAt(e, len, offset) ==
    IF offset < 0 \/ offset >= e.total_size THEN [n |-> 0, err |-> "EOF"]
    ELSE LET toRead == IF offset + len > e.total_size THEN e.total_size - offset ELSE len
             fileOffset == e.base + offset
         IN  ReaderReadAt(e.filename, toRead, fileOffset)

\* Sparse and null extents: the bytes are there (data or zeros) up to the
\* extent's end; a sparse read that reaches the end reports io.EOF.
SparseExtentReadAt(e, len, offset) ==
    IF offset < 0 \/ offset >= e.total_size THEN [n |-> 0, err |-> "EOF"]
    ELSE LET n == Min(len, e.total_size - offset)
         IN  [n |-> n, err |-> IF offset + n = e.total_size THEN "EOF" ELSE "nil"]

NullExtentReadAt(e, len, offset) ==
    IF offset < 0 \/ offset >= e.total_size THEN [n |-> 0, err |-> "EOF"]
    ELSE [n |-> Min(len, e.total_size - offset), err |-> "nil"]

ExtentReadAt(e, len, offset) ==
    CASE e.type = "flat" -> FlatExtentReadAt(e, len, offset)
      [] e.type = "sparse" -> SparseExtentReadAt(e, len, offset)
      [] OTHER -> NullExtentReadAt(e, len, offset)

(***************************************************************************)
(* VMDKContext.ReadAt(buf, offset) for a buffer of buf_len bytes.          *)
(* The result records n and err, hi (one past the highest position of buf  *)
(* written, 0 when nothing is) and reads, the (n, err) results of the      *)
(* extents' ReadAt calls in order, and looks, the (offset, err, index)     *)
(* results of the getExtentForOffset calls in order (index 0 with EOF).    *)
(***************************************************************************)
ReadResult(n, err, hi, reads, looks) ==
    [n |-> n, err |-> err, hi |-> hi, reads |-> reads, looks |-> looks]

\* len(buf) after `buf = buf[:available_length]`.
ClampBuf_NoClamp(buf_len, available_length) == buf_len

ClampBuf(buf_len, available_length) ==
    IF buf_len > available_length THEN available_length ELSE buf_len

RECURSIVE ReadLoop(_, _, _, _, _, _, _, _)
ReadLoop(c, buf_len, len_buf, offset, i, hi, reads, looks) ==
    IF ~(i < buf_len) THEN ReadResult(i, "nil", hi, reads, looks)
    ELSE LET look == getExtentForOffset(c.extents, offset + i)
             looked == Append(looks, <<offset + i, look.err, look.idx>>)
         IN  IF look.err # "nil"
             THEN ReadResult(len_buf, "nil", Max(hi, len_buf), reads, looked)
             ELSE LET extent == c.extents[look.idx]
                      index_in_extent == offset + i - VirtualOffset(extent)
                      available_length == TotalSize(extent) - index_in_extent
                      to_read == IF buf_len - i > available_length
                                 THEN available_length ELSE buf_len - i
                      r == ExtentReadAt(extent, to_read, index_in_extent)
                      seen == Append(reads, <<r.n, r.err>>)
                  IN  IF r.err # "nil" /\ r.err # "EOF"
                      THEN ReadResult(i, r.err, hi, seen, looked)
                      ELSE IF r.n = 0 THEN ReadResult(i, "nil", hi, seen, looked)
                      ELSE ReadLoop(c, buf_len, len_buf, offset, i + r.n,
                                    Max(hi, i + r.n), seen, looked)

ContextReadAt(c, buf_len, offset) ==
    IF offset > c.total_size \/ offset < 0 THEN ReadResult(0, "EOF", 0, <<>>, <<>>)
    ELSE LET available_length == c.total_size - offset
         IN  ReadLoop(c, buf_len, ClampBuf(buf_len, available_length),
                      offset, 0, 0, <<>>, <<>>)

(***************************************************************************)
(* Close.  st is the pair of the extent list and the handles.              *)
(***************************************************************************)
RunCloser(hs, h) == [hs EXCEPT ![h].calls = @ + 1]

\* FlatExtent.Close: runs the closer when it is not nil, and keeps it.
FlatExtentClose(st, k) ==
    LET e == st.extents[k]
    IN  IF e.closer # NilCloser
        THEN [st EXCEPT !.handles = RunCloser(@, e.closer)]
        ELSE st

\* SparseExtent.Close: a one-shot release, the closer is nil afterwards.
SparseExtentClose(st, k) ==
    LET e == st.extents[k]
    IN  IF e.closer # NilCloser
        THEN [st EXCEPT !.handles = RunCloser(@, e.closer),
                        !.extents[k].closer = NilCloser]
        ELSE st

ExtentClose(st, k) ==
    CASE st.extents[k].type = "flat" -> FlatExtentClose(st, k)
      [] st.extents[k].type = "sparse" -> SparseExtentClose(st, k)
      [] OTHER -> st

RECURSIVE CloseLoop(_, _)
CloseLoop(st, k) ==
    IF k > Len(st.extents) THEN st
    ELSE CloseLoop(ExtentClose(st, k), k + 1)

\* VMDKContext.Close.
ContextClose(c, hs) == CloseLoop([extents |-> c.extents, handles |-> hs], 1)

(***************************************************************************)
(* The state machine.  ret is the result of the last call.                 *)
(***************************************************************************)
Ret(op, err) ==
    [op |-> op, err |-> err, len |-> 0, off |-> 0, n |-> 0, hi |-> 0,
     reads |-> <<>>, looks |-> <<>>, ext |-> 0]

Init ==
    /\ variant \in Variants
    /\ descriptor = <<>>
    /\ ctx = NoContext
    /\ handles = <<>>
    /\ ret = Ret("none", "nil")
    /\ nclose = 0

\* open(reader, size, opener) on a descriptor.
Open ==
    /\ ret.op = "none"
    /\ \E d \in Descriptors :
          LET acc == GetVMDKContext(variant, d)
          IN  /\ descriptor' = d
              /\ ctx' = IF acc.err = "nil"
                        THEN [valid |-> TRUE, extents |-> acc.extents,
                              total_size |-> acc.total_size]
                        ELSE NoContext
              /\ handles' = acc.handles
              /\ ret' = Ret("GetVMDKContext", acc.err)
    /\ UNCHANGED <<variant, nclose>>

\* The offsets and buffer lengths the reads of the model use.
ReadOffsets(c) ==
    { -1, 0, c.total_size - 1, c.total_size, c.total_size + 1 }
      \cup { k * OffStep : k \in 0..((c.total_size + OffStep) \div OffStep) }

ReadLengths == { 0, 1, 4 * SECTOR_SIZE }

\* A read of the context, before any of its readers is closed.
ReadAt ==
    /\ ctx.valid
    /\ nclose = 0
    /\ \E buf_len \in ReadLengths, offset \in ReadOffsets(ctx) :
          LET r == ContextReadAt(ctx, buf_len, offset)
          IN  ret' = [Ret("ReadAt", r.err) EXCEPT !.len = buf_len, !.off = offset,
                                                  !.n = r.n, !.hi = r.hi,
                                                  !.reads = r.reads,
                                                  !.looks = r.looks]
    /\ UNCHANGED <<variant, descriptor, ctx, handles, nclose>>

Close ==
    /\ ctx.valid
    /\ nclose < MaxClose
    /\ LET st == ContextClose(ctx, handles)
       IN  /\ ctx' = [ctx EXCEPT !.extents = st.extents]
           /\ handles' = st.handles
    /\ ret' = Ret("Close", "nil")
    /\ nclose' = nclose + 1
    /\ UNCHANGED <<variant, descriptor>>

\* Close called on one extent of the context.
CloseExtent ==
    /\ ctx.valid
    /\ nclose < MaxClose
    /\ \E k \in 1..Len(ctx.extents) :
          LET st == ExtentClose([extents |-> ctx.extents, handles |-> handles], k)
          IN  /\ ctx' = [ctx EXCEPT !.extents = st.extents]
              /\ handles' = st.handles
              /\ ret' = [Ret("Extent.Close", "nil") EXCEPT !.ext = k]
    /\ nclose' = nclose + 1
    /\ UNCHANGED <<variant, descriptor>>

Next == Open \/ ReadAt \/ Close \/ CloseExtent

Spec == Init /\ [][Next]_vars

(***************************************************************************)
(* normalizeExtents on its own: a context assembled from a list of flat    *)
(* extents placed at increasing virtual offsets, with or without gaps      *)
(* between them, total_size being the sum of their sizes as GetVMDKContext *)
(* accumulates it.                                                         *)
(***************************************************************************)
GapChoices == { 0, SECTOR_SIZE, 3 * SECTOR_SIZE }
SizeChoices == { SECTOR_SIZE, 2 * SECTOR_SIZE }

RECURSIVE Place(_, _, _, _)
Place(pieces, k, at, extents) ==
    IF k > Len(pieces) THEN extents
    ELSE Place(pieces, k + 1, at + pieces[k][1] + pieces[k][2],
               Append(extents, GetFlatExtent("a.vmdk", 0, pieces[k][2] \div SECTOR_SIZE,
                                             at + pieces[k][1], NilCloser)))

RECURSIVE SumSizes(_, _)
SumSizes(extents, k) ==
    IF k > Len(extents) THEN 0 ELSE TotalSize(extents[k]) + SumSizes(extents, k + 1)

ExtentLists ==
    { Place(p, 1, 0, <<>>) : p \in SeqsUpTo(GapChoices \X SizeChoices, MaxExtents) }

InitNormalize ==
    /\ variant = "parser/context.go"
    /\ descriptor = <<>>
    /\ handles = <<>>
    /\ nclose = 0
    /\ ret = Ret("assembled", "nil")
    /\ \E l \in ExtentLists :
          ctx = [valid |-> TRUE, extents |-> l, total_size |-> SumSizes(l, 1)]

Normalize ==
    /\ ret.op = "assembled"
    /\ ctx' = normalizeExtents(ctx)
    /\ ret' = Ret("normalizeExtents", "nil")
    /\ UNCHANGED <<variant, descriptor, handles, nclose>>

NextNormalize == Normalize

SpecNormalize == InitNormalize /\ [][NextNormalize]_vars

(***************************************************************************)
(* Properties.                                                             *)
(***************************************************************************)
OpenDone == ret.op = "GetVMDKContext"
ReadDone == ret.op = "ReadAt"
Normalized == ret.op = "normalizeExtents"

\* The loop state of GetVMDKContext when it reaches line k of the descriptor.
Before(k) == LineLoop(variant, EmptyAcc(""), SubSeq(descriptor, 1, k - 1), 1)

\* Line k is an extent line read in the Extents state, every line before it
\* having been handled without error.
ReachesExtentLine(k) ==
    /\ k \in 1..Len(descriptor)
    /\ Len(descriptor[k].match) > 0
    /\ Before(k).err = ""
    /\ Before(k).state = "Extents"

LastExtent == ctx.extents[Len(ctx.extents)]

Contiguous(extents) ==
    \A i \in 1..(Len(extents) - 1) :
        extents[i].offset + extents[i].total_size = extents[i + 1].offset

\* C1: a read of a non-empty buffer at offset exactly total_size returns
\* zero bytes and the EOF error.
C1_ReadAtTotalSizeIsEOF ==
    (ReadDone /\ ret.len > 0 /\ ret.off = ctx.total_size)
        => (ret.n = 0 /\ ret.err = "EOF")

C3_NormalizedContiguous == Normalized => Contiguous(ctx.extents)

\* C4: after normalization Size() is the sum of the sizes of the extents of
\* the normalized list, null extents included.
C4_SizeIsSumOfExtents == Normalized => Size(ctx) = SumSizes(ctx.extents, 1)

\* C5: over any sequence of Close calls no closer the opener returned runs
\* more than once, and once the context was closed every extent's closer has
\* run exactly once.
C5_CloserRunsOnce ==
    /\ \A h \in 1..Len(handles) : handles[h].calls <= 1
    /\ ret.op = "Close" =>
          \A i \in 1..Len(ctx.extents) :
              ctx.extents[i].type = "flat" => handles[ctx.extents[i].closer].calls = 1

\* C6: in a constructed context the first extent is at virtual offset 0, the
\* virtual offsets are strictly increasing and the extents are contiguous.
C6_StrictlyIncreasingContiguous ==
    ctx.valid =>
        /\ Len(ctx.extents) > 0 => ctx.extents[1].offset = 0
        /\ Contiguous(ctx.extents)
        /\ \A i \in 1..(Len(ctx.extents) - 1) :
               ctx.extents[i].offset < ctx.extents[i + 1].offset

\* C7: a VMFS extent line is handled as a FLAT one: when it is the last line
\* of the descriptor and the opener serves its file, open succeeds and the
\* last extent is a flat extent of sector_count * 512 bytes at base
\* sector_offset * 512 and at the virtual offset the running total had.
C7_VMFSHandledAsFlat ==
    LET k == Len(descriptor)
        m == descriptor[k].match
    IN  (/\ OpenDone
         /\ ReachesExtentLine(k)
         /\ m[3] = "VMFS"
         /\ StrconvOk(m[2]) /\ StrconvOk(m[5])
         /\ opener(m[4]) = "nil")
        => /\ ret.err = "nil"
           /\ ctx.valid
           /\ Len(ctx.extents) = Len(Before(k).extents) + 1
           /\ LastExtent.type = "flat"
           /\ LastExtent.total_size = StrconvVal(m[2]) * SECTOR_SIZE
           /\ LastExtent.base = StrconvVal(m[5]) * SECTOR_SIZE
           /\ LastExtent.offset = Before(k).total_size

SupportedKinds == { "SPARSE", "FLAT", "VMFS" }

UnsupportedLine(k) ==
    /\ ReachesExtentLine(k)
    /\ descriptor[k].match[3] \notin SupportedKinds

\* C8 as stated: an extent line of the Extents section with a kind outside
\* SPARSE, FLAT, VMFS makes open return the unsupported-extent-kind error and
\* no context, whatever valid extents precede it.
C8_UnsupportedKindError ==
    OpenDone =>
        \A k \in 1..Len(descriptor) :
            UnsupportedLine(k) => (ret.err = "unsupported-extent-kind" /\ ~ctx.valid)

\* The line's numeric fields are parsed before the opener is called in the
\* part_000 build, and not at all for an unsupported kind in context.go.
FieldsParse(k) ==
    variant = "unnamed/part_000" =>
        /\ StrconvOk(descriptor[k].match[2])
        /\ descriptor[k].match[5] # "" => StrconvOk(descriptor[k].match[5])

\* C8 amended: such a line makes open return an error and no context; the
\* error is unsupported-extent-kind when the opener succeeds for the line's
\* file and the line's numeric fields parse.
C8_UnsupportedKindAborts ==
    OpenDone =>
        \A k \in 1..Len(descriptor) :
            UnsupportedLine(k) =>
                /\ ~ctx.valid
                /\ ret.err # "nil"
                /\ (opener(descriptor[k].match[4]) = "nil" /\ FieldsParse(k))
                       => ret.err = "unsupported-extent-kind"

\* open rejected an unsupported kind after a valid extent had been opened.
C8_Witness ==
    /\ OpenDone
    /\ ret.err = "unsupported-extent-kind"
    /\ ~ctx.valid
    /\ \E k \in 2..Len(descriptor) :
          UnsupportedLine(k) /\ Len(Before(k).extents) >= 1

\* C9: a FLAT extent line without the trailing sector offset is accepted:
\* when it is the last line of the descriptor and the opener serves its file,
\* open succeeds and the last extent is a flat extent at base offset 0.
C9_FlatWithoutOffsetAccepted ==
    LET k == Len(descriptor)
        m == descriptor[k].match
    IN  (/\ OpenDone
         /\ ReachesExtentLine(k)
         /\ m[3] = "FLAT"
         /\ StrconvOk(m[2]) /\ m[5] = ""
         /\ opener(m[4]) = "nil")
        => /\ ret.err = "nil"
           /\ ctx.valid
           /\ LastExtent.type = "flat"
           /\ LastExtent.base = 0

\* C10: a read of a non-empty buffer at an offset inside the disk whose first
\* extent read returns (0, EOF) returns EOF; a read that got at least one
\* byte before a backing EOF returns the short count and no error.
C10_EOFSurfacedWhenNothingRead ==
    (ReadDone /\ ret.len > 0 /\ ret.off >= 0 /\ ret.off < ctx.total_size
       /\ Len(ret.reads) > 0)
        => /\ ret.reads[1] = <<0, "EOF">> => ret.err = "EOF"
           /\ (ret.n > 0 /\ ret.reads[Len(ret.reads)][2] = "EOF") => ret.err = "nil"

\* C11: every lookup a read makes returns an extent only when the offset is
\* inside it (virtual_offset <= offset < virtual_offset + size) and no
\* extent that starts at or before the offset starts after it; every other
\* offset, the end of the last extent included, gives EOF.
C11_LookupReturnsCoveringExtent ==
    ReadDone =>
        \A l \in 1..Len(ret.looks) :
            LET offset == ret.looks[l][1]
                err == ret.looks[l][2]
                idx == ret.looks[l][3]
                Covers(e) == /\ VirtualOffset(e) <= offset
                             /\ offset < VirtualOffset(e) + TotalSize(e)
            IN  /\ err = "nil" =>
                      /\ Covers(ctx.extents[idx])
                      /\ \A j \in 1..Len(ctx.extents) :
                            VirtualOffset(ctx.extents[j]) <= offset
                              => VirtualOffset(ctx.extents[j])
                                   <= VirtualOffset(ctx.extents[idx])
                /\ err # "nil" =>
                      /\ err = "EOF"
                      /\ \A j \in 1..Len(ctx.extents) :
                            ~Covers(ctx.extents[j])

\* Line k is extent-shaped and stands in an Extents section: an Extents
\* header precedes it with nothing but extent-shaped lines in between.
InExtentsSection(k) ==
    /\ Len(descriptor[k].match) > 0
    /\ \E j \in 1..(k - 1) :
          /\ descriptor[j].hdr = HdrExtents
          /\ \A i \in (j + 1)..(k - 1) : Len(descriptor[i].match) > 0

\* The numbers of those lines, in the order of the descriptor.
SectionLines ==
    SelectSeq([k \in 1..Len(descriptor) |-> k], InExtentsSection)

\* C12: the opener is called only for the extent lines of an Extents section
\* that no other line has ended, in their order, and a successful open
\* appends exactly one extent for each of them, in the same order; an
\* extent-shaped line after the section has ended is ignored until another
\* Extents header.
C12_OnlySectionLinesBecomeExtents ==
    OpenDone =>
        /\ Len(handles) <= Len(SectionLines)
        /\ \A h \in 1..Len(handles) :
              handles[h].file = descriptor[SectionLines[h]].match[4]
        /\ ret.err = "nil" =>
              /\ Len(handles) = Len(SectionLines)
              /\ Len(ctx.extents) = Len(SectionLines)
              /\ \A i \in 1..Len(ctx.extents) :
                    LET match == descriptor[SectionLines[i]].match
                    IN  /\ (ctx.extents[i].type = "sparse") = (match[3] = "SPARSE")
                        /\ ctx.extents[i].type = "flat" =>
                              /\ ctx.extents[i].filename = match[4]
                              /\ ctx.extents[i].closer = i
                              /\ ctx.extents[i].total_size
                                    = StrconvVal(match[2]) * SECTOR_SIZE

\* An open that succeeded on a descriptor whose Extents section was ended by
\* a line that is no extent, skipped the extent line after it, and took up
\* the extent line after a second Extents header.
C12_Witness ==
    /\ OpenDone /\ ret.err = "nil"
    /\ Len(descriptor) = 5
    /\ descriptor[1].hdr = HdrExtents
    /\ descriptor[2] = OtherLine
    /\ Len(descriptor[3].match) > 0
    /\ descriptor[4].hdr = HdrExtents
    /\ Len(descriptor[5].match) > 0
    /\ Len(ctx.extents) = 1
    /\ Len(handles) = 1

\* C13: when open returns an error, every closer the opener handed out
\* during that open has been invoked.
C13_FailedOpenReleasesReaders ==
    (OpenDone /\ ret.err \notin { "nil", "panic" })
        => \A h \in 1..Len(handles) : handles[h].calls >= 1

====
